---- MODULE Spec2Model ----
(***************************************************************************)
(* weathered: a typed request builder for the open-meteo forecast API.     *)
(* The model follows src/lib.rs: the option catalog (enums and their       *)
(* Display / get renderings), the typestate builder Forecast<'a, C> and    *)
(* the serializer to_sring.                                                *)
(*                                                                         *)
(* Representation.                                                         *)
(*   - A field-less enum value is its discriminant (0-based declaration    *)
(*     index); strum's derived Display looks the variant name up.          *)
(*   - A payload-carrying enum value is a record [kind |-> discriminant,   *)
(*     val |-> payload].                                                   *)
(*   - An f32 is held as a signed number of tenths (501 is 50.1); the      *)
(*     model covers the f32 values that are decimals with one fractional   *)
(*     digit and at most six significant digits, which f32's Display       *)
(*     prints back digit for digit.                                        *)
(*   - A String is a TLA+ string; a Vec is a sequence.                     *)
(***************************************************************************)
EXTENDS Integers, Sequences, FiniteSets

VARIABLES
    forecast,   \* the Forecast<'a, C> value the caller holds
    url,        \* <<s>> when to_string() returned s for this forecast, else <<>>
    last,       \* the last builder call: [call |-> name, items |-> its argument list]
    log         \* what the calls passed: the coordinates, and per category every
                \* item in call order

vars == <<forecast, url, last, log>>

(***************************************************************************)
(* Bounds of the model.                                                    *)
(***************************************************************************)
\* the most items one append call passes
MaxBatch == 2
\* the most items a request built call by call holds, over its four lists
MaxItems == 2
\* the same under SpecCatalog, whose calls draw from every variant
MaxCatalogItems == 1

(***************************************************************************)
(* Option catalog                                                          *)
(***************************************************************************)
BASE_URL == "https://api.open-meteo.com/v1/forecast"

Temperature == <<"celsius", "fahrenheit">>

Speed == <<"kmh", "ms", "mph", "kn">>

Precipitation == <<"mm", "inch">>

TimeFormat == <<"iso8601", "unixtime">>

Cell == <<"land", "sea", "nearest">>

\* #[derive(Display)]: a variant prints as its name, whatever it carries
Display(names, discriminant) == names[discriminant + 1]

Digit == <<"0", "1", "2", "3", "4", "5", "6", "7", "8", "9">>

RECURSIVE u_to_string(_)
\* u8 / u32 to_string(): decimal digits, no sign, no padding
u_to_string(n) ==
    IF n < 10 THEN Digit[n + 1]
    ELSE u_to_string(n \div 10) \o Digit[(n % 10) + 1]

\* f32 to_string() of t tenths: no fraction when it is zero, no exponent
f32_to_string(t) ==
    LET a == IF t < 0 THEN -t ELSE t
        whole == u_to_string(a \div 10)
        frac == IF a % 10 = 0 THEN "" ELSE "." \o Digit[(a % 10) + 1]
    IN (IF t < 0 THEN "-" ELSE "") \o whole \o frac

bool_to_string(b) == IF b THEN "true" ELSE "false"

Timezone_explicit(continent, country) ==
    [kind |-> 0, val |-> <<continent, country>>]

Timezone_auto == [kind |-> 1, val |-> <<>>]

Timezone_get_slash(self) ==
    IF self.kind = 0 THEN self.val[1] \o "/" \o self.val[2] ELSE "auto"

Timezone_get(self) ==
    IF self.kind = 0 THEN self.val[1] \o "%2F" \o self.val[2] ELSE "auto"

Settings ==
    <<"elevation", "current_weather", "temperature_unit", "windspeed_unit",
      "precipitation_unit", "timeformat", "timezone", "past_days", "forecast_days",
      "start_date", "end_date", "cell_selection">>

Settings_elevation(t) == [kind |-> 0, val |-> t]
Settings_current_weather(t) == [kind |-> 1, val |-> t]
Settings_temperature_unit(t) == [kind |-> 2, val |-> t]
Settings_windspeed_unit(t) == [kind |-> 3, val |-> t]
Settings_precipitation_unit(t) == [kind |-> 4, val |-> t]
Settings_timeformat(t) == [kind |-> 5, val |-> t]
Settings_timezone(t) == [kind |-> 6, val |-> t]
Settings_past_days(t) == [kind |-> 7, val |-> t]
Settings_forecast_days(t) == [kind |-> 8, val |-> t]
Settings_start_date(t) == [kind |-> 9, val |-> t]
Settings_end_date(t) == [kind |-> 10, val |-> t]
Settings_cell_selection(t) == [kind |-> 11, val |-> t]

Settings_get(self) ==
    CASE self.kind = 0 -> f32_to_string(self.val)
      [] self.kind = 1 -> bool_to_string(self.val)
      [] self.kind = 2 -> Display(Temperature, self.val)
      [] self.kind = 3 -> Display(Speed, self.val)
      [] self.kind = 4 -> Display(Precipitation, self.val)
      [] self.kind = 11 -> Display(Cell, self.val)
      [] self.kind = 5 -> Display(TimeFormat, self.val)
      [] self.kind \in {7, 8} -> u_to_string(self.val)
      [] self.kind = 6 -> Timezone_get(self.val)
      [] self.kind \in {9, 10} -> self.val

Hourly_short ==
    <<"temperature_2m", "relative_humidity_2m", "dewpoint_2m", "apparent_temperature",
      "pressure_msl", "surface_pressure", "cloudcover", "cloudcover_low",
      "cloudcover_mid", "cloudcover_high", "windspeed_10m", "windspeed_80m",
      "windspeed_120m", "windspeed_180m", "winddirection_10m", "windspeedtion_80m",
      "windspeedtion_120m", "windspeedtion_180m", "windgusts_10m",
      "shortwave_radiation", "direct_radiation", "direct_normal_irradiance",
      "diffuse_radiation", "vapor_pressure_deficit", "cape", "evapotranspiration",
      "et0_fao_evapotranspiration", "precipitation", "snowfall",
      "precipitation_probability", "rain", "showers", "weathercode", "snow_depth",
      "freezinglevel_height", "visibility", "soil_temperature_0cm",
      "soil_temperature_6cm", "soil_temperature_18cm", "soil_temperature_54cm",
      "soil_moisture_0_1cm", "soil_moisture_1_3cm", "soil_moisture_4_9cm",
      "soil_moisture_9_27cm", "soil_moisture_27_81cm">>

Hourly ==
    <<"temperature_2m", "relative_humidity_2m", "dewpoint_2m", "apparent_temperature",
      "pressure_msl", "surface_pressure", "cloudcover", "cloudcover_low",
      "cloudcover_mid", "cloudcover_high", "windspeed_10m", "windspeed_80m",
      "windspeed_120m", "windspeed_180m", "winddirection_10m", "windspeedtion_80m",
      "windspeedtion_120m", "windspeedtion_180m", "windgusts_10m",
      "shortwave_radiation", "direct_radiation", "direct_normal_irradiance",
      "diffuse_radiation", "vapor_pressure_deficit", "cape", "evapotranspiration",
      "et0_fao_evapotranspiration", "precipitation", "snowfall",
      "precipitation_probability", "rain", "showers", "weathercode", "snow_depth",
      "freezinglevel_height", "visibility", "soil_temperature_0cm",
      "soil_temperature_6cm", "soil_temperature_18cm", "soil_temperature_54cm",
      "soil_moisture_0_1cm", "soil_moisture_1_3cm", "soil_moisture_4_9cm",
      "soil_moisture_9_27cm", "soil_moisture_27_81cm", "is_day">>

Hourly_temperature_2m == 0
Hourly_cape == 24
Hourly_rain == 30
Hourly_is_day == 45

PressureVar ==
    <<"temperature", "relativehumidity", "dewpoint", "cloudcover", "windspeed",
      "winddirection", "geopotential_height">>

PressureVar_temperature(h) == [kind |-> 0, val |-> h]
PressureVar_relativehumidity(h) == [kind |-> 1, val |-> h]
PressureVar_dewpoint(h) == [kind |-> 2, val |-> h]
PressureVar_cloudcover(h) == [kind |-> 3, val |-> h]
PressureVar_windspeed(h) == [kind |-> 4, val |-> h]
PressureVar_winddirection(h) == [kind |-> 5, val |-> h]
PressureVar_geopotential_height(h) == [kind |-> 6, val |-> h]

PressureVar_get_keyed(self) ==
    Display(PressureVar, self.kind) \o "=" \o u_to_string(self.val) \o "hPa"

PressureVar_get(self) ==
    LET value == self.val
    IN Display(PressureVar, self.kind) \o "_" \o u_to_string(value) \o "hPa"

Daily ==
    <<"temperature_2m_max", "temperature_2m_min", "apparent_temperature_max",
      "apparent_temperature_min", "precipitation_sum", "rain_sum", "showers_sum",
      "swnofall_sum", "precipitation_hours", "precipitation_probability_max",
      "precipitation_probability_min", "precipitation_probability_mean",
      "weathercode", "sunrise", "sunset", "windspeed_10m_max", "windgusts_10m_max",
      "winddirection_10m_dominant", "shortwave_radiation_sum",
      "et0_fao_evapotranspiration", "uv_index_max", "uv_index_clear_sky_max">>

Daily_temperature_2m_max == 0
Daily_sunrise == 13
Daily_sunset == 14
Daily_uv_index_clear_sky_max == 21

(***************************************************************************)
(* Request builder: the typestates and Forecast<'a, C>                     *)
(***************************************************************************)
NoCoordinates == [type |-> "NoCoordinates"]

Coordinates(latitude, longitude) ==
    [type |-> "Coordinates", latitude |-> latitude, longitude |-> longitude]

\* the three impl blocks: the methods of each exist for these C only
impl_NoCoordinates_any(self) == self.coordinates.type \in {"NoCoordinates", "Coordinates"}

impl_NoCoordinates(self) == self.coordinates.type = "NoCoordinates"

impl_Coordinates(self) == self.coordinates.type = "Coordinates"

impl_C(self) == self.coordinates.type \in {"NoCoordinates", "Coordinates"}

new ==
    [coordinates |-> NoCoordinates, settings |-> <<>>, hourly |-> <<>>,
     pressure_var |-> <<>>, daily |-> <<>>]

coord_default(self, latitude, longitude) ==
    [new EXCEPT !.coordinates = Coordinates(latitude, longitude)]

coord(self, latitude, longitude) ==
    [coordinates |-> Coordinates(latitude, longitude),
     settings |-> self.settings,
     hourly |-> self.hourly,
     pressure_var |-> self.pressure_var,
     daily |-> self.daily]

RECURSIVE push_each_front(_, _)
push_each_front(vec, items) ==
    IF items = <<>> THEN vec
    ELSE push_each_front(<<Head(items)>> \o vec, Tail(items))

RECURSIVE push_each(_, _)
\* for el in items.iter() { vec.push(*el); }
push_each(vec, items) ==
    IF items = <<>> THEN vec
    ELSE push_each(Append(vec, Head(items)), Tail(items))

settings(self, items) == [self EXCEPT !.settings = push_each(@, items)]

hourly(self, items) == [self EXCEPT !.hourly = push_each(@, items)]

daily(self, items) == [self EXCEPT !.daily = push_each(@, items)]

pressure_var(self, items) == [self EXCEPT !.pressure_var = push_each(@, items)]

(***************************************************************************)
(* Serializer                                                              *)
(***************************************************************************)
\* url.push_str(format!("?latitude={}&longitude={}", ...))
push_coordinates_swapped(s, self) ==
    s \o "?latitude=" \o f32_to_string(self.coordinates.longitude)
      \o "&longitude=" \o f32_to_string(self.coordinates.latitude)

push_coordinates(s, self) ==
    s \o "?latitude=" \o f32_to_string(self.coordinates.latitude)
      \o "&longitude=" \o f32_to_string(self.coordinates.longitude)

RECURSIVE push_settings(_, _)
\* for el in &self.settings { url.push_str(format!("&{}={}", el, el.get())) }
push_settings(s, els) ==
    IF els = <<>> THEN s
    ELSE push_settings(
             s \o "&" \o Display(Settings, Head(els).kind) \o "=" \o Settings_get(Head(els)),
             Tail(els))

RECURSIVE push_names(_, _, _)
\* for el in &self.hourly { url.push_str(format!(",{}", el)) }, and the same for daily
push_names(s, names, els) ==
    IF els = <<>> THEN s
    ELSE push_names(s \o "," \o Display(names, Head(els)), names, Tail(els))

push_hourly_unguarded(s, self) == push_names(s \o "&hourly=", Hourly, self.hourly)

push_hourly_per_entry(s, self) ==
    IF self.hourly = <<>> THEN s
    ELSE push_names(
             push_names(s \o "&hourly=", Hourly, <<Head(self.hourly)>>)
                 \o (IF Len(self.hourly) > 1 THEN "&hourly=" ELSE ""),
             Hourly, Tail(self.hourly))

push_hourly(s, self) ==
    IF self.hourly # <<>>
    THEN push_names(s \o "&hourly=", Hourly, self.hourly)
    ELSE s

push_daily(s, self) ==
    IF self.daily # <<>>
    THEN push_names(s \o "&daily=", Daily, self.daily)
    ELSE s

RECURSIVE push_pressure(_, _)
\* for el in &self.pressure_var { url.push_str(format!("&{}", el.get())) }
push_pressure(s, els) ==
    IF els = <<>> THEN s
    ELSE push_pressure(s \o "&" \o PressureVar_get(Head(els)), Tail(els))

to_sring_daily_first(self) ==
    LET u1 == push_coordinates(BASE_URL, self)
        u2 == push_settings(u1, self.settings)
        u3 == push_daily(u2, self)
        u4 == push_hourly(u3, self)
    IN push_pressure(u4, self.pressure_var)

to_sring(self) ==
    LET u1 == push_coordinates(BASE_URL, self)
        u2 == push_settings(u1, self.settings)
        u3 == push_hourly(u2, self)
        u4 == push_daily(u3, self)
    IN push_pressure(u4, self.pressure_var)

\* impl Display for Forecast<'a, Coordinates>, hence to_string()
fmt(self) == to_sring(self)

(***************************************************************************)
(* The test of the crate                                                   *)
(***************************************************************************)
url_creation_forecast ==
    pressure_var(
        daily(
            hourly(
                settings(coord(new, 501, 501),
                         <<Settings_elevation(10001),
                           Settings_timezone(Timezone_explicit("Europe", "London"))>>),
                <<Hourly_rain, Hourly_cape>>),
            <<Daily_sunrise, Daily_sunset>>),
        <<PressureVar_dewpoint(50), PressureVar_windspeed(30)>>)

url_creation_expected ==
    "https://api.open-meteo.com/v1/forecast?latitude=50.1&longitude=50.1&elevation=1000.1&timezone=Europe%2FLondon&hourly=,rain,cape&daily=,sunrise,sunset&dewpoint_50hPa&windspeed_30hPa"

(***************************************************************************)
(* Inputs the calls are made with                                          *)
(***************************************************************************)
CoordInputs == {<<501, 501>>, <<-75, 20>>}

\* Spec: a few values of each category, appended in every order and split
CoreSettings ==
    {Settings_elevation(10001),
     Settings_timezone(Timezone_explicit("Europe", "London")),
     Settings_timezone(Timezone_auto),
     Settings_past_days(2),
     Settings_start_date("2023-05-01")}

CoreHourly == {Hourly_cape, Hourly_rain, Hourly_is_day}

CoreDaily == {Daily_sunrise, Daily_sunset}

CorePressure ==
    {PressureVar_dewpoint(50), PressureVar_dewpoint(30), PressureVar_windspeed(30)}

\* SpecCatalog: every variant of Settings and of PressureVar, and strings that a
\* percent-encoder would change
AllSettings ==
    {Settings_elevation(10001),
     Settings_elevation(-75),
     Settings_current_weather(TRUE),
     Settings_current_weather(FALSE),
     Settings_temperature_unit(1),
     Settings_windspeed_unit(3),
     Settings_precipitation_unit(1),
     Settings_timeformat(1),
     Settings_timezone(Timezone_explicit("Europe", "London")),
     Settings_timezone(Timezone_explicit("America", "Argentina/Salta")),
     Settings_timezone(Timezone_auto),
     Settings_past_days(2),
     Settings_forecast_days(16),
     Settings_start_date("2023-05-01"),
     Settings_start_date("1 May?"),
     Settings_end_date("2023/05/07 12:00"),
     Settings_cell_selection(1)}

AllHourly == {Hourly_temperature_2m, Hourly_cape, Hourly_rain, Hourly_is_day}

AllDaily == {Daily_temperature_2m_max, Daily_sunrise, Daily_sunset,
             Daily_uv_index_clear_sky_max}

AllPressure ==
    {PressureVar_temperature(1000),
     PressureVar_relativehumidity(850),
     PressureVar_dewpoint(50),
     PressureVar_dewpoint(30),
     PressureVar_cloudcover(0),
     PressureVar_windspeed(30),
     PressureVar_winddirection(2147483647),
     PressureVar_geopotential_height(7)}

\* the argument lists of one append call that fit in the room left; the empty
\* list always does
Batches(S, room) ==
    {<<>>} \cup UNION {[1..n -> S] : n \in 1..(IF MaxBatch < room THEN MaxBatch ELSE room)}

Total(self) ==
    Len(self.settings) + Len(self.hourly) + Len(self.daily) + Len(self.pressure_var)

(***************************************************************************)
(* The state machine: one action per call                                  *)
(***************************************************************************)
Init ==
    /\ forecast = new
    /\ url = <<>>
    /\ last = [call |-> "new", items |-> <<>>]
    /\ log = [coord |-> <<>>, settings |-> <<>>, hourly |-> <<>>,
              daily |-> <<>>, pressure_var |-> <<>>]

Coord ==
    \E c \in CoordInputs :
        /\ impl_NoCoordinates(forecast)
        /\ forecast' = coord(forecast, c[1], c[2])
        /\ url' = <<>>
        /\ last' = [call |-> "coord", items |-> c]
        /\ log' = [log EXCEPT !.coord = c]

SettingsCall(inputs, most) ==
    \E items \in Batches(inputs, most - Total(forecast)) :
        /\ impl_C(forecast)
        /\ forecast' = settings(forecast, items)
        /\ url' = <<>>
        /\ last' = [call |-> "settings", items |-> items]
        /\ log' = [log EXCEPT !.settings = @ \o items]

HourlyCall(inputs, most) ==
    \E items \in Batches(inputs, most - Total(forecast)) :
        /\ impl_C(forecast)
        /\ forecast' = hourly(forecast, items)
        /\ url' = <<>>
        /\ last' = [call |-> "hourly", items |-> items]
        /\ log' = [log EXCEPT !.hourly = @ \o items]

DailyCall(inputs, most) ==
    \E items \in Batches(inputs, most - Total(forecast)) :
        /\ impl_C(forecast)
        /\ forecast' = daily(forecast, items)
        /\ url' = <<>>
        /\ last' = [call |-> "daily", items |-> items]
        /\ log' = [log EXCEPT !.daily = @ \o items]

PressureVarCall(inputs, most) ==
    \E items \in Batches(inputs, most - Total(forecast)) :
        /\ impl_C(forecast)
        /\ forecast' = pressure_var(forecast, items)
        /\ url' = <<>>
        /\ last' = [call |-> "pressure_var", items |-> items]
        /\ log' = [log EXCEPT !.pressure_var = @ \o items]

ToStringCall ==
    /\ impl_Coordinates(forecast)
    /\ url' = <<fmt(forecast)>>
    /\ UNCHANGED <<forecast, last, log>>

\* tests::url_creation: builds its own request from new() and prints it
UrlCreation ==
    /\ last.call = "new"
    /\ forecast' = url_creation_forecast
    /\ url' = <<fmt(forecast')>>
    /\ last' = [call |-> "url_creation", items |-> <<>>]
    /\ log' = [coord |-> <<501, 501>>,
               settings |-> <<Settings_elevation(10001),
                              Settings_timezone(Timezone_explicit("Europe", "London"))>>,
               hourly |-> <<Hourly_rain, Hourly_cape>>,
               daily |-> <<Daily_sunrise, Daily_sunset>>,
               pressure_var |-> <<PressureVar_dewpoint(50), PressureVar_windspeed(30)>>]

Next ==
    \/ Coord
    \/ SettingsCall(CoreSettings, MaxItems)
    \/ HourlyCall(CoreHourly, MaxItems)
    \/ DailyCall(CoreDaily, MaxItems)
    \/ PressureVarCall(CorePressure, MaxItems)
    \/ ToStringCall
    \/ UrlCreation

Spec == Init /\ [][Next]_vars

NextCatalog ==
    \/ Coord
    \/ SettingsCall(AllSettings, MaxCatalogItems)
    \/ HourlyCall(AllHourly, MaxCatalogItems)
    \/ DailyCall(AllDaily, MaxCatalogItems)
    \/ PressureVarCall(AllPressure, MaxCatalogItems)
    \/ ToStringCall
    \/ UrlCreation

SpecCatalog == Init /\ [][NextCatalog]_vars

(***************************************************************************)
(* Vocabulary of the properties                                            *)
(***************************************************************************)
Ready == forecast.coordinates.type = "Coordinates"

Uninitialized == forecast.coordinates.type = "NoCoordinates"

Appends == {"settings", "hourly", "daily", "pressure_var"}

IsPrefix(p, s) == Len(p) <= Len(s) /\ SubSeq(s, 1, Len(p)) = p

IsSuffix(p, s) == Len(p) <= Len(s) /\ SubSeq(s, Len(s) - Len(p) + 1, Len(s)) = p

\* the positions of s at which p starts
Starts(p, s) == {i \in 1..(Len(s) - Len(p) + 1) : SubSeq(s, i, i + Len(p) - 1) = p}

Occurrences(p, s) == Cardinality(Starts(p, s))

\* equality of two catalog values, the variant compared before the payload
Same(x, y) == x.kind = y.kind /\ x.val = y.val

SameList(a, b) == Len(a) = Len(b) /\ \A i \in 1..Len(a) : Same(a[i], b[i])

RECURSIVE Concat(_)
Concat(ss) == IF ss = <<>> THEN "" ELSE Head(ss) \o Concat(Tail(ss))

\* the pieces of s between the occurrences of the one-character separator sep
Split(s, sep) ==
    LET P == {i \in 1..Len(s) : SubSeq(s, i, i) = sep}
        n == Cardinality(P)
        pos(j) == IF j = 0 THEN 0
                  ELSE IF j = n + 1 THEN Len(s) + 1
                  ELSE CHOOSE i \in P : Cardinality({q \in P : q < i}) = j - 1
    IN [j \in 1..(n + 1) |-> SubSeq(s, pos(j - 1) + 1, pos(j) - 1)]

HasSep(s, sep) == \E i \in 1..Len(s) : SubSeq(s, i, i) = sep

\* a text without its leading separator
Strip(t) == SubSeq(t, 2, Len(t))

\* the query of the URL produced: what follows each & (the first piece, up to the
\* first &, is the endpoint with ?latitude=)
Params == Tail(Split(url[1], "&"))

IsHourly(q) == IsPrefix("hourly=", q)

IsDaily(q) == IsPrefix("daily=", q)

IsLongitude(q) == IsPrefix("longitude=", q)

IsBare(q) == ~HasSep(q, "=")

IsSetting(q) == ~IsBare(q) /\ ~IsHourly(q) /\ ~IsDaily(q) /\ ~IsLongitude(q)

\* The text each input value is to appear as, written out value by value from the
\* API vocabulary and the host language's default rendering of numbers.
F32Text(t) ==
    CASE t = 501 -> "50.1"
      [] t = -75 -> "-7.5"
      [] t = 20 -> "2"
      [] t = 10001 -> "1000.1"

SettingText(x) ==
    CASE Same(x, Settings_elevation(10001)) -> "&elevation=1000.1"
      [] Same(x, Settings_elevation(-75)) -> "&elevation=-7.5"
      [] Same(x, Settings_current_weather(FALSE)) -> "&current_weather=false"
      [] Same(x, Settings_start_date("1 May?")) -> "&start_date=1 May?"
      [] Same(x, Settings_current_weather(TRUE)) -> "&current_weather=true"
      [] Same(x, Settings_temperature_unit(1)) -> "&temperature_unit=fahrenheit"
      [] Same(x, Settings_windspeed_unit(3)) -> "&windspeed_unit=kn"
      [] Same(x, Settings_precipitation_unit(1)) -> "&precipitation_unit=inch"
      [] Same(x, Settings_timeformat(1)) -> "&timeformat=unixtime"
      [] Same(x, Settings_timezone(Timezone_explicit("Europe", "London")))
            -> "&timezone=Europe%2FLondon"
      [] Same(x, Settings_timezone(Timezone_explicit("America", "Argentina/Salta")))
            -> "&timezone=America%2FArgentina/Salta"
      [] Same(x, Settings_timezone(Timezone_auto)) -> "&timezone=auto"
      [] Same(x, Settings_past_days(2)) -> "&past_days=2"
      [] Same(x, Settings_forecast_days(16)) -> "&forecast_days=16"
      [] Same(x, Settings_start_date("2023-05-01")) -> "&start_date=2023-05-01"
      [] Same(x, Settings_end_date("2023/05/07 12:00")) -> "&end_date=2023/05/07 12:00"
      [] Same(x, Settings_cell_selection(1)) -> "&cell_selection=sea"

HourlyText(x) ==
    CASE x = Hourly_temperature_2m -> ",temperature_2m"
      [] x = Hourly_cape -> ",cape"
      [] x = Hourly_rain -> ",rain"
      [] x = Hourly_is_day -> ",is_day"

DailyText(x) ==
    CASE x = Daily_sunrise -> ",sunrise"
      [] x = Daily_temperature_2m_max -> ",temperature_2m_max"
      [] x = Daily_sunset -> ",sunset"
      [] x = Daily_uv_index_clear_sky_max -> ",uv_index_clear_sky_max"

PressureText(x) ==
    CASE Same(x, PressureVar_temperature(1000)) -> "&temperature_1000hPa"
      [] Same(x, PressureVar_relativehumidity(850)) -> "&relativehumidity_850hPa"
      [] Same(x, PressureVar_dewpoint(50)) -> "&dewpoint_50hPa"
      [] Same(x, PressureVar_dewpoint(30)) -> "&dewpoint_30hPa"
      [] Same(x, PressureVar_cloudcover(0)) -> "&cloudcover_0hPa"
      [] Same(x, PressureVar_windspeed(30)) -> "&windspeed_30hPa"
      [] Same(x, PressureVar_winddirection(2147483647)) -> "&winddirection_2147483647hPa"
      [] Same(x, PressureVar_geopotential_height(7)) -> "&geopotential_height_7hPa"

CoordFragment ==
    "?latitude=" \o F32Text(log.coord[1]) \o "&longitude=" \o F32Text(log.coord[2])

SettingsFragment == Concat([i \in 1..Len(log.settings) |-> SettingText(log.settings[i])])

HourlySection ==
    IF log.hourly = <<>> THEN ""
    ELSE "&hourly=" \o Concat([i \in 1..Len(log.hourly) |-> HourlyText(log.hourly[i])])

DailySection ==
    IF log.daily = <<>> THEN ""
    ELSE "&daily=" \o Concat([i \in 1..Len(log.daily) |-> DailyText(log.daily[i])])

PressureFragment ==
    Concat([i \in 1..Len(log.pressure_var) |-> PressureText(log.pressure_var[i])])

(***************************************************************************)
(* C1  Serialization is possible exactly for a request that was given      *)
(* coordinates: to_string() is enabled iff coord() was called on the       *)
(* request, no URL exists for a request that never received coordinates,   *)
(* and every URL produced starts with the base endpoint immediately        *)
(* followed by ?latitude=<lat>&longitude=<lon> of the coordinates passed.  *)
(***************************************************************************)
C1_SerializationOnlyWhenReady ==
    /\ (ENABLED ToStringCall) <=> (log.coord # <<>>)
    /\ url # <<>> =>
          /\ log.coord # <<>>
          /\ Ready
          /\ IsPrefix("https://api.open-meteo.com/v1/forecast" \o CoordFragment, url[1])

C1_Witness ==
    /\ url # <<>>
    /\ last.call = "coord"
    /\ log.coord = <<-75, 20>>
    /\ Total(forecast) > 0

(***************************************************************************)
(* C2  The builder is a two-state machine.  It starts Uninitialized with   *)
(* its four lists empty; coord() is enabled exactly in Uninitialized and   *)
(* leaves the request Ready; no step leaves Ready; the four append calls   *)
(* are enabled in both states and a step of theirs keeps the state; only   *)
(* a step that supplies coordinates moves Uninitialized to Ready.  So the  *)
(* coordinates are passed once, the stored pair is the pair passed, and    *)
(* it never changes afterwards.                                            *)
(***************************************************************************)
C2_TwoStateMachine ==
    /\ Uninitialized
    /\ forecast.settings = <<>> /\ forecast.hourly = <<>>
    /\ forecast.daily = <<>> /\ forecast.pressure_var = <<>>
    /\ [](/\ Ready # Uninitialized
          /\ (ENABLED Coord) <=> Uninitialized
          /\ ENABLED SettingsCall(CoreSettings, MaxItems)
          /\ ENABLED HourlyCall(CoreHourly, MaxItems)
          /\ ENABLED DailyCall(CoreDaily, MaxItems)
          /\ ENABLED PressureVarCall(CorePressure, MaxItems)
          /\ Ready => forecast.coordinates.latitude = log.coord[1]
                      /\ forecast.coordinates.longitude = log.coord[2])
    /\ [][/\ Ready => Ready' /\ forecast'.coordinates = forecast.coordinates
                             /\ log'.coord = log.coord
          /\ (Uninitialized /\ Ready') => last'.call \in {"coord", "url_creation"}
          /\ (last.call # "coord" /\ last'.call = "coord") => (Uninitialized /\ Ready')
          /\ last'.call \in Appends => (Ready' <=> Ready)]_vars

C2_Witness ==
    /\ Ready
    /\ last.call \in Appends
    /\ last.items # <<>>
    /\ log.coord = <<-75, 20>>
    /\ url # <<>>

(***************************************************************************)
(* C3  For every Ready request the URL is exactly: the base endpoint,      *)
(* ?latitude=<lat>&longitude=<lon>, one &<key>=<value> per Setting in      *)
(* insertion order, the hourly section if any, the daily section if any,   *)
(* one &<measurement>_<level>hPa per pressure variable in insertion order, *)
(* and nothing else.  With the four lists empty it is the base endpoint    *)
(* and the coordinates alone, and the request of tests::url_creation       *)
(* prints as the string that test expects.                                 *)
(***************************************************************************)
C3_ExactUrl ==
    /\ url # <<>> =>
          url[1] = "https://api.open-meteo.com/v1/forecast" \o CoordFragment
                   \o SettingsFragment \o HourlySection \o DailySection
                   \o PressureFragment
    /\ (url # <<>> /\ Total(forecast) = 0) =>
          url[1] = "https://api.open-meteo.com/v1/forecast?latitude="
                   \o F32Text(log.coord[1]) \o "&longitude=" \o F32Text(log.coord[2])
    /\ last.call = "url_creation" => url = <<url_creation_expected>>

C3_Witness ==
    /\ last.call = "url_creation"
    /\ url = <<url_creation_expected>>
    /\ Len(forecast.settings) = 2 /\ Len(forecast.hourly) = 2
    /\ Len(forecast.daily) = 2 /\ Len(forecast.pressure_var) = 2

SameForecast(f, g) ==
    /\ f.coordinates = g.coordinates
    /\ SameList(f.settings, g.settings)
    /\ f.hourly = g.hourly
    /\ f.daily = g.daily
    /\ SameList(f.pressure_var, g.pressure_var)

CoordFirst ==
    pressure_var(
        daily(
            hourly(settings(coord(new, log.coord[1], log.coord[2]), log.settings),
                   log.hourly),
            log.daily),
        log.pressure_var)

CoordLast ==
    coord(pressure_var(daily(hourly(settings(new, log.settings), log.hourly),
                             log.daily),
                       log.pressure_var),
          log.coord[1], log.coord[2])

(***************************************************************************)
(* C4  The URL depends only on the coordinates and on the per-category     *)
(* sequences of appended items, not on how the calls were interleaved:     *)
(* whatever order the calls came in, the request and its URL are those of  *)
(* the call sequence new().coord().settings().hourly().daily()             *)
(* .pressure_var() and of the one that calls coord() last, each passing    *)
(* the same coordinates and, per category, the same items in the same      *)
(* order.  Two call sequences that agree on these therefore give equal     *)
(* URLs.                                                                   *)
(***************************************************************************)
C4_InterleavingIndependent ==
    Ready =>
        /\ SameForecast(forecast, CoordFirst)
        /\ SameForecast(forecast, CoordLast)
        /\ url # <<>> => url[1] = to_sring(CoordFirst) /\ url[1] = to_sring(CoordLast)

C4_Witness ==
    /\ url # <<>>
    /\ last.call = "coord"
    /\ forecast.settings # <<>>
    /\ forecast.pressure_var # <<>>

Apply(f, call, items) ==
    CASE call = "settings" -> settings(f, items)
      [] call = "hourly" -> hourly(f, items)
      [] call = "daily" -> daily(f, items)
      [] call = "pressure_var" -> pressure_var(f, items)

StoredAsAppended ==
    /\ SameList(forecast.settings, log.settings)
    /\ forecast.hourly = log.hourly
    /\ forecast.daily = log.daily
    /\ SameList(forecast.pressure_var, log.pressure_var)

\* per category, the URL's tokens of that category are the items appended, one
\* token per item appended, in the order appended
PrintedAsAppended ==
    /\ SelectSeq(Params, IsSetting)
           = [i \in 1..Len(log.settings) |-> Strip(SettingText(log.settings[i]))]
    /\ SelectSeq(Params, IsHourly)
           = IF log.hourly = <<>> THEN <<>> ELSE <<Strip(HourlySection)>>
    /\ log.hourly # <<>> =>
           Tail(Split(SelectSeq(Params, IsHourly)[1], ","))
               = [i \in 1..Len(log.hourly) |-> Strip(HourlyText(log.hourly[i]))]
    /\ SelectSeq(Params, IsDaily)
           = IF log.daily = <<>> THEN <<>> ELSE <<Strip(DailySection)>>
    /\ log.daily # <<>> =>
           Tail(Split(SelectSeq(Params, IsDaily)[1], ","))
               = [i \in 1..Len(log.daily) |-> Strip(DailyText(log.daily[i]))]
    /\ SelectSeq(Params, IsBare)
           = [i \in 1..Len(log.pressure_var) |-> Strip(PressureText(log.pressure_var[i]))]

\* the step is append(xs ++ ys): compare with append(xs) then append(ys)
SplitAgrees ==
    \A k \in 0..Len(last'.items) :
        LET xs == SubSeq(last'.items, 1, k)
            ys == SubSeq(last'.items, k + 1, Len(last'.items))
            twice == Apply(Apply(forecast, last'.call, xs), last'.call, ys)
        IN /\ SameForecast(twice, forecast')
           /\ impl_Coordinates(twice) => to_sring(twice) = to_sring(forecast')

(***************************************************************************)
(* C5  Within each category the items are kept and printed in the order    *)
(* they were appended, none reordered and none dropped as a duplicate,     *)
(* however they were split over append calls: every stored list is the     *)
(* concatenation of the argument lists in call order, an item appended k   *)
(* times is printed k times, and a call append(xs ++ ys) leaves the same   *)
(* request and the same URL as append(xs) followed by append(ys) from the  *)
(* same request.                                                           *)
(***************************************************************************)
C5_OrderPreserved ==
    /\ [](StoredAsAppended /\ (url # <<>> => PrintedAsAppended))
    /\ [][(last'.call \in Appends /\ url' = <<>>) => SplitAgrees]_vars

C5_Witness ==
    /\ url # <<>>
    /\ last.call = "settings"
    /\ Len(last.items) = 1
    /\ Len(forecast.settings) = 2
    /\ Same(forecast.settings[1], forecast.settings[2])

EmptyAppendStep == last'.call \in Appends /\ Len(last'.items) = 0 /\ url' = <<>>

(***************************************************************************)
(* C6  Appending an empty list, in any category, at any point and in       *)
(* either builder state, changes nothing: the request after the call is    *)
(* the request before it, so every URL printed from then on is the one     *)
(* that would have been printed without the call.  A request whose hourly  *)
(* (daily) list is empty prints no hourly= (daily=) parameter, an empty    *)
(* append or not.                                                          *)
(***************************************************************************)
C6_EmptyAppendNoEffect ==
    /\ [][EmptyAppendStep =>
             /\ SameForecast(forecast', forecast)
             /\ log' = log
             /\ Ready => to_sring(forecast') = to_sring(forecast)]_vars
    /\ [](url # <<>> =>
             /\ log.hourly = <<>> => /\ SelectSeq(Params, IsHourly) = <<>>
                                     /\ Occurrences("hourly", url[1]) = 0
             /\ log.daily = <<>> => /\ SelectSeq(Params, IsDaily) = <<>>
                                    /\ Occurrences("daily", url[1]) = 0)

C6_Witness ==
    /\ url # <<>>
    /\ last.call = "hourly"
    /\ Len(last.items) = 0
    /\ forecast.hourly = <<>>
    /\ forecast.settings # <<>>

(***************************************************************************)
(* C7  The hourly section is printed iff the hourly list is non-empty, and *)
(* then once, however many hourly() calls filled the list: &hourly=        *)
(* followed by ,<name> for every entry in insertion order, the first       *)
(* included.  The daily list is printed the same way under daily.          *)
(***************************************************************************)
C7_HourlyDailySections ==
    url # <<>> =>
        /\ Occurrences("&hourly=", url[1]) = IF log.hourly = <<>> THEN 0 ELSE 1
        /\ Occurrences("&daily=", url[1]) = IF log.daily = <<>> THEN 0 ELSE 1
        /\ SelectSeq(Params, IsHourly)
               = IF log.hourly = <<>> THEN <<>>
                 ELSE <<"hourly=" \o Concat([i \in 1..Len(log.hourly) |->
                                                "," \o Strip(HourlyText(log.hourly[i]))])>>
        /\ SelectSeq(Params, IsDaily)
               = IF log.daily = <<>> THEN <<>>
                 ELSE <<"daily=" \o Concat([i \in 1..Len(log.daily) |->
                                               "," \o Strip(DailyText(log.daily[i]))])>>
        /\ last.call = "url_creation" =>
               /\ Occurrences("&hourly=,rain,cape&", url[1]) = 1
               /\ Occurrences("&daily=,sunrise,sunset&", url[1]) = 1

C7_Witness ==
    /\ url # <<>>
    /\ last.call = "hourly"
    /\ Len(last.items) = 1
    /\ forecast.hourly = <<Hourly_rain, Hourly_cape>>

(***************************************************************************)
(* C8  A pressure variable of any of the seven kinds, at level n, prints   *)
(* as <measurement>_<n>hPa; each stands in the URL as a token of its own,  *)
(* after an &, with no = in it, one token per list entry in insertion      *)
(* order, and all of them after the hourly and daily sections.             *)
(***************************************************************************)
C8_PressureTokens ==
    url # <<>> =>
        /\ SelectSeq(Params, IsBare)
               = [i \in 1..Len(log.pressure_var) |->
                     Strip(PressureText(log.pressure_var[i]))]
        /\ \A i \in 1..Len(Params) :
               IsBare(Params[i]) => \A j \in i..Len(Params) : IsBare(Params[j])
        /\ IsSuffix(PressureFragment, url[1])
        /\ last.call = "url_creation" =>
               IsSuffix("&daily=,sunrise,sunset&dewpoint_50hPa&windspeed_30hPa", url[1])

C8_Witness ==
    /\ url # <<>>
    /\ Len(forecast.pressure_var) = 1
    /\ forecast.pressure_var[1].kind = 6
    /\ IsSuffix("&geopotential_height_7hPa", url[1])

IsExplicitTimezone(x) == x.kind = 6 /\ x.val.kind = 0

(***************************************************************************)
(* C9  A timezone setting prints as &timezone=<continent>%2F<country> when *)
(* explicit and as &timezone=auto when auto.  That %2F is the only         *)
(* percent-encoding done: the continent, the country and the start_date    *)
(* and end_date strings are copied into the URL character for character.   *)
(***************************************************************************)
C9_TimezoneRendering ==
    url # <<>> =>
        /\ Len(SelectSeq(Params, IsSetting)) = Len(log.settings)
        /\ \A i \in 1..Len(log.settings) :
               LET x == log.settings[i]
                   q == SelectSeq(Params, IsSetting)[i]
               IN /\ IsExplicitTimezone(x) =>
                         q = "timezone=" \o x.val.val[1] \o "%2F" \o x.val.val[2]
                  /\ (x.kind = 6 /\ x.val.kind = 1) => q = "timezone=auto"
                  /\ x.kind = 9 => q = "start_date=" \o x.val
                  /\ x.kind = 10 => q = "end_date=" \o x.val
        /\ Occurrences("%", url[1])
               = Cardinality({i \in 1..Len(log.settings) : IsExplicitTimezone(log.settings[i])})
        /\ last.call = "url_creation" => Occurrences("&timezone=Europe%2FLondon&", url[1]) = 1

C9_Witness ==
    /\ url # <<>>
    /\ last.call = "settings"
    /\ Len(forecast.settings) = 1
    /\ IsExplicitTimezone(forecast.settings[1])
    /\ forecast.settings[1].val.val = <<"America", "Argentina/Salta">>

Names(table) == {table[i] : i \in 1..Len(table)}

PrintsOwnNames ==
    /\ \A i \in 1..Len(forecast.hourly) : forecast.hourly[i] \in 0..(Len(Hourly) - 1)
    /\ \A i \in 1..Len(forecast.daily) : forecast.daily[i] \in 0..(Len(Daily) - 1)
    /\ url # <<>> =>
          /\ forecast.hourly # <<>> =>
                 Tail(Split(SelectSeq(Params, IsHourly)[1], ","))
                     = [i \in 1..Len(forecast.hourly) |-> Hourly[forecast.hourly[i] + 1]]
          /\ forecast.daily # <<>> =>
                 Tail(Split(SelectSeq(Params, IsDaily)[1], ","))
                     = [i \in 1..Len(forecast.daily) |-> Daily[forecast.daily[i] + 1]]

\* C10 as stated, with 45 Hourly members: it fails, Hourly has 46
C10_Original ==
    /\ Len(Hourly) = 45 /\ Cardinality(Names(Hourly)) = 45
    /\ Len(Daily) = 22 /\ Cardinality(Names(Daily)) = 22
    /\ PrintsOwnNames

(***************************************************************************)
(* C10  The Hourly enumeration has 46 members (not 45) and the Daily       *)
(* enumeration 22, no two members of one enumeration sharing a name; a     *)
(* member carries no payload (a stored entry is its discriminant alone)    *)
(* and prints as its own name.                                             *)
(***************************************************************************)
C10_EnumerationSizes ==
    /\ Len(Hourly) = 46 /\ Cardinality(Names(Hourly)) = 46
    /\ Len(Daily) = 22 /\ Cardinality(Names(Daily)) = 22
    /\ PrintsOwnNames

C10_Witness ==
    /\ url # <<>>
    /\ forecast.hourly = <<Hourly_is_day>>
    /\ SelectSeq(Params, IsHourly) = <<"hourly=,is_day">>

====
